---------------------------- MODULE Spec2Model ----------------------------
(***************************************************************************)
(* Model of naibu3/TestExtractor: the extractor (test_extractor.py), the   *)
(* collector (collector.py) and the solver (checker.py).                   *)
(*                                                                         *)
(* Text is a sequence of one-character strings.  Characters outside ASCII  *)
(* are written as named tokens: "LDQUO" "RDQUO" "LSQUO" "RSQUO" are the     *)
(* curly quotes, "a_ac" "e_ac" "i_ac" "o_ac" "u_ac" "n_ti" the accented    *)
(* lower-case letters, "A_AC" "E_AC" "I_AC" "O_AC" "U_AC" "N_TI" their     *)
(* upper-case forms, "IEXCL" and "IQUEST" the inverted marks.              *)
(***************************************************************************)
EXTENDS Integers, Sequences, FiniteSets, TLC

VARIABLES
    txt_in,     \* text layer: the string under normalisation
    txt_out,    \* text layer: results of the successive applications
    m_cand,     \* matcher: candidate text
    m_opts,     \* matcher: option texts
    m_ret,      \* matcher: <<returned index>>, or <<>> before the call
    exam,       \* oracle: the generated test, a sequence of questions
    truth,      \* oracle: truth[k] is the 0-based index of question k's correct option
    site,       \* oracle: layout of the result page and whether it shows the score
    posts,      \* oracle: the payloads received by the grading URL, in order
    resp,       \* oracle: the last result page, [score, page]
    pcE,        \* extractor: position in main()
    preguntas,  \* extractor: parsed questions
    opciones_map,     \* extractor: per question, its <<value, text>> options
    correct_texts,    \* extractor: texts read from the result page, padded
    correcta_letras,  \* extractor: per question, the resolved letter or <<>>
    correcta_textos,  \* extractor: per question, the resolved option text or <<>>
    out_json,   \* extractor: the exported JSON list, or <<>> when not written
    existing_map,   \* collector: the dict key -> record, as <<key, record>> pairs in insertion order
    merge_log,      \* collector: every <<key, record>> handed to merge_into_map so far, in order
    merge_ret,      \* collector: the triple returned by the last merge_into_map, or <<>>
    out_file,       \* collector: the aggregated output file
    args,           \* collector: --target, --max-iter, --stop-after-no-new
    pcC,            \* collector: position in main()
    iter_count,     \* collector: iterations started
    no_new_streak,  \* collector: consecutive iterations without a new question
    pcS,            \* solver: position in main()
    kb_list,        \* solver: the knowledge base, a list of entries
    sol_preguntas,  \* solver: parsed questions
    kb_entry,       \* solver: per question, <<position in kb_list of the entry used>> or <<>>
    chosen_positions,  \* solver: per question, the position submitted
    score,          \* solver: <<parsed score>> or <<>> (None)
    correct_by_idx, \* solver: the pairs <<idx, text>> read from the result page
    aciertos,       \* solver: the number of hits reported
    wrong_blocks,   \* solver: the idx of the questions reported as failed, in order
    export_items    \* solver: the exported items

textVars == <<txt_in, txt_out, m_cand, m_opts, m_ret>>
oracleVars == <<exam, truth, site, posts, resp>>
extVars == <<pcE, preguntas, opciones_map, correct_texts, correcta_letras,
             correcta_textos, out_json>>
colVars == <<existing_map, merge_log, merge_ret, out_file, args, pcC, iter_count,
             no_new_streak>>
solVars == <<pcS, kb_list, sol_preguntas, kb_entry, chosen_positions, score,
             correct_by_idx, aciertos, wrong_blocks, export_items>>
vars == <<textVars, oracleVars, extVars, colVars, solVars>>

-----------------------------------------------------------------------------
(* Generic sequence helpers (Python str primitives).                       *)

MinOf(S) ==
    CHOOSE x \in S : \A y \in S : x <= y

\* F applied to the value of v, which is computed once.
With(v, F(_)) ==
    CHOOSE r \in { F(x) : x \in {v} } : TRUE

Take(s, n) ==
    SubSeq(s, 1, n)

Drop(s, n) ==
    SubSeq(s, n + 1, Len(s))

StartsWith(s, p) ==
    Len(p) <= Len(s) /\ Take(s, Len(p)) = p

\* Python `p in s` for strings.
IsSubstring(p, s) ==
    \E i \in 0..(Len(s) - Len(p)) : SubSeq(s, i + 1, i + Len(p)) = p

\* str.replace(pat, rep): left to right, non-overlapping.
RECURSIVE Replace(_, _, _)
Replace(s, pat, rep) ==
    IF s = <<>> THEN <<>>
    ELSE IF StartsWith(s, pat) THEN rep \o Replace(Drop(s, Len(pat)), pat, rep)
    ELSE <<Head(s)>> \o Replace(Tail(s), pat, rep)

\* The characters the regex class \s and str.strip() treat as whitespace.
IsSpace(c) ==
    c \in {" ", "\t", "\n"}

RECURSIVE LStrip(_)
LStrip(s) ==
    IF s # <<>> /\ IsSpace(Head(s)) THEN LStrip(Tail(s)) ELSE s

RECURSIVE RStripSet(_, _)
RStripSet(s, chars) ==
    IF s # <<>> /\ s[Len(s)] \in chars THEN RStripSet(Take(s, Len(s) - 1), chars) ELSE s

\* str.strip()
Strip(s) ==
    RStripSet(LStrip(s), {" ", "\t", "\n"})

\* re.sub(r"\s+", " ", s)
RECURSIVE CollapseWs(_)
CollapseWs(s) ==
    IF s = <<>> THEN <<>>
    ELSE IF IsSpace(Head(s)) THEN <<" ">> \o CollapseWs(LStrip(s))
    ELSE <<Head(s)>> \o CollapseWs(Tail(s))

-----------------------------------------------------------------------------
(* html.unescape, for the named references amp, lt, gt and quot (with and  *)
(* without the closing semicolon, as the HTML5 table lists both).  Numeric *)
(* references are not modelled: no modelled text contains "#".             *)

EntityNames ==
    { <<"a","m","p",";">>, <<"a","m","p">>, <<"l","t",";">>, <<"l","t">>,
      <<"g","t",";">>, <<"g","t">>, <<"q","u","o","t",";">>, <<"q","u","o","t">> }

EntityChar(name) ==
    CASE name[1] = "a" -> "&"
      [] name[1] = "l" -> "<"
      [] name[1] = "g" -> ">"
      [] OTHER         -> "\""

\* Length of the longest prefix of s made of characters of [^\t\n\f <&#;].
RECURSIVE NameRun(_)
NameRun(s) ==
    IF s = <<>> \/ Head(s) \in {"\t", "\n", " ", "<", "&", "#", ";"} THEN 0
    ELSE 1 + NameRun(Tail(s))

\* html._replace_charref on the text m matched after "&".
CharRef(m) ==
    IF m \in EntityNames THEN <<EntityChar(m)>>
    ELSE LET hits == { x \in 2..(Len(m) - 1) : Take(m, x) \in EntityNames }
         IN  IF hits = {} THEN <<"&">> \o m
             ELSE LET x == CHOOSE y \in hits : \A z \in hits : z <= y
                  IN  <<EntityChar(Take(m, x))>> \o Drop(m, x)

RECURSIVE Unescape(_)
Unescape(s) ==
    IF s = <<>> THEN <<>>
    ELSE IF Head(s) # "&" THEN <<Head(s)>> \o Unescape(Tail(s))
    ELSE LET t    == Tail(s)
             run  == NameRun(t)
             semi == IF run < Len(t) /\ t[run + 1] = ";" THEN 1 ELSE 0
         IN  IF run = 0 THEN <<"&">> \o Unescape(t)
             ELSE CharRef(Take(t, run + semi)) \o Unescape(Drop(t, run + semi))

-----------------------------------------------------------------------------
(* normalize_txt_strict and its steps.                                     *)

UpperChars ==
    <<"A","B","C","D","E","F","G","H","I","J","K","L","M","N","O","P","Q","R",
      "S","T","U","V","W","X","Y","Z","A_AC","E_AC","I_AC","O_AC","U_AC","N_TI">>

LowerChars ==
    <<"a","b","c","d","e","f","g","h","i","j","k","l","m","n","o","p","q","r",
      "s","t","u","v","w","x","y","z","a_ac","e_ac","i_ac","o_ac","u_ac","n_ti">>

LowerMap ==
    [c \in { UpperChars[k] : k \in DOMAIN UpperChars } |->
        LowerChars[CHOOSE k \in DOMAIN UpperChars : UpperChars[k] = c]]

\* str.lower().  (Appending <<>> only makes the result a plain sequence.)
Lower(s) ==
    [k \in DOMAIN s |-> IF s[k] \in DOMAIN LowerMap THEN LowerMap[s[k]] ELSE s[k]] \o <<>>

\* NFD decomposition followed by removal of the combining marks (category Mn).
BaseMap ==
    [c \in {"a_ac","e_ac","i_ac","o_ac","u_ac","n_ti","A_AC","E_AC","I_AC","O_AC","U_AC","N_TI"} |->
        CASE c = "a_ac" -> "a" [] c = "e_ac" -> "e" [] c = "i_ac" -> "i"
          [] c = "o_ac" -> "o" [] c = "u_ac" -> "u" [] c = "n_ti" -> "n"
          [] c = "A_AC" -> "A" [] c = "E_AC" -> "E" [] c = "I_AC" -> "I"
          [] c = "O_AC" -> "O" [] c = "U_AC" -> "U" [] c = "N_TI" -> "N"]

StripDiacritics(s) ==
    [k \in DOMAIN s |-> IF s[k] \in DOMAIN BaseMap THEN BaseMap[s[k]] ELSE s[k]] \o <<>>

\* The four .replace() calls that unify the curly quotes.
UnifyQuotes(s) ==
    [k \in DOMAIN s |->
        CASE s[k] \in {"LDQUO", "RDQUO"} -> "\""
          [] s[k] \in {"RSQUO", "LSQUO"} -> "'"
          [] OTHER -> s[k]] \o <<>>

\* .replace('""""','"').replace('"""','"').replace("''","'")
CollapseQuotes(s) ==
    Replace(Replace(Replace(s, <<"\"","\"","\"","\"">>, <<"\"">>),
                    <<"\"","\"","\"">>, <<"\"">>),
            <<"'","'">>, <<"'">>)

\* The keyword alternatives of the citation pattern.  Each is followed by
\* [^)]+, so arts?, art[ii]culo and situaci[oo]n match exactly when art and
\* sit do; v[0-9._-]+ is handled in CitaBody.
CitaKeywords ==
    { <<"a","r","t">>, <<"e","j","e","m","p","l","o">>, <<"i","o">>,
      <<"r","j">>, <<"s","i","t">> }

CitaBody(body) ==
    LET b == Lower(body)
    IN  \/ \E k \in CitaKeywords : StartsWith(b, k) /\ Len(b) > Len(k)
        \/ /\ Len(b) >= 3
           /\ b[1] = "v"
           /\ b[2] \in {"0","1","2","3","4","5","6","7","8","9",".","_","-"}

\* The pattern matches with its "(" at position p: the text after it up to
\* the first ")" is a citation body and only whitespace follows that ")".
CitaAt(s, p) ==
    /\ s[p] = "("
    /\ \E q \in (p + 1)..Len(s) :
          /\ s[q] = ")"
          /\ \A r \in (p + 1)..(q - 1) : s[r] # ")"
          /\ \A r \in (q + 1)..Len(s) : IsSpace(s[r])
          /\ CitaBody(SubSeq(s, p + 1, q - 1))

\* re.sub(r"\s*\((art|...)[^)]+\)\s*$", "", s, flags=re.I): the leftmost
\* match is removed together with the whitespace before it.
StripCita(s) ==
    LET ps == { p \in 1..Len(s) : CitaAt(s, p) }
    IN  IF ps = {} THEN s
        ELSE LET p == CHOOSE q \in ps : \A r \in ps : q <= r
             IN  RStripSet(Take(s, p - 1), {" ", "\t", "\n"})

TrailingPunct ==
    {".", ";", ":", "IEXCL", "!", "IQUEST", "?", "[", "]", "(", ")"}

normalize_txt_strict(s) ==
    LET s1 == Unescape(s)
        s2 == CollapseQuotes(UnifyQuotes(s1))
        s3 == StripCita(s2)
        s4 == Lower(StripDiacritics(s3))
        s5 == RStripSet(Strip(s4), TrailingPunct)
    IN  Strip(CollapseWs(s5))

\* clean_visible_text, and _norm_out of parse_correct_answers_from_results
\* (the two bodies are the same three statements).
clean_visible_text(s) ==
    Strip(CollapseWs(CollapseQuotes(Unescape(s))))

-----------------------------------------------------------------------------
(* difflib.SequenceMatcher(None, a, b).ratio() without junk (autojunk only *)
(* acts on sequences of 200 or more elements).                             *)

RECURSIVE CommonRun(_, _, _, _)
CommonRun(a, b, i, j) ==
    IF i > Len(a) \/ j > Len(b) \/ a[i] # b[j] THEN 0
    ELSE 1 + CommonRun(a, b, i + 1, j + 1)

\* find_longest_match: the longest block, leftmost in a, then leftmost in b.
\* <<i, j, k>>, k = 0 when there is none.
LongestMatch(a, b) ==
    LET find(run) ==
            LET lens == { run[i][j] : i \in 1..Len(a), j \in 1..Len(b) }
                best(k) ==
                    LET at(i0) == <<i0, MinOf({ j \in 1..Len(b) : run[i0][j] = k }), k>>
                    IN  IF k = 0 THEN <<0, 0, 0>>
                        ELSE With(MinOf({ i \in 1..Len(a) : \E j \in 1..Len(b) : run[i][j] = k }), at)
            IN  With(CHOOSE x \in lens : \A y \in lens : y <= x, best)
    IN  With([i \in 1..Len(a) |-> [j \in 1..Len(b) |-> CommonRun(a, b, i, j)] \o <<>>] \o <<>>, find)

\* Sum of the sizes of get_matching_blocks().
RECURSIVE MatchCount(_, _)
MatchCount(a, b) ==
    LET blocks(m) ==
            IF m[3] = 0 THEN 0
            ELSE m[3] + MatchCount(Take(a, m[1] - 1), Take(b, m[2] - 1))
                      + MatchCount(Drop(a, m[1] + m[3] - 1), Drop(b, m[2] + m[3] - 1))
    IN  IF a = <<>> \/ b = <<>> THEN 0 ELSE With(LongestMatch(a, b), blocks)

\* ratio() as the fraction <<numerator, denominator>>; 1.0 for two empty texts.
Ratio(a, b) ==
    IF Len(a) + Len(b) = 0 THEN <<1, 1>>
    ELSE <<2 * MatchCount(a, b), Len(a) + Len(b)>>

\* r1 > r2 on fractions with positive denominators.
RatioGT(r1, r2) ==
    r1[1] * r2[2] > r2[1] * r1[2]

-----------------------------------------------------------------------------
(* best_option_match.  Indices are 0-based as in the source; the result is *)
(* -1 when the option list is empty.                                       *)

\* The "fuzzy" loop from option k on: <<best_i, best_r>> is replaced only
\* by a strictly greater ratio.
RECURSIVE FuzzyScan(_, _, _, _, _)
FuzzyScan(opts_norm, target, k, best_i, best_r) ==
    LET step(r) ==
            IF RatioGT(r, best_r)
            THEN FuzzyScan(opts_norm, target, k + 1, k - 1, r)
            ELSE FuzzyScan(opts_norm, target, k + 1, best_i, best_r)
    IN  IF k > Len(opts_norm) THEN best_i
        ELSE With(Ratio(opts_norm[k], target), step)

\* A cascade that tries containment before equality.
CascadeContainFirst(tn) ==
    LET target    == tn[1]
        opts_norm == tn[2]
        exact     == { k \in DOMAIN opts_norm : opts_norm[k] = target }
        incl      == { k \in DOMAIN opts_norm :
                         /\ opts_norm[k] # <<>>
                         /\ \/ IsSubstring(opts_norm[k], target)
                            \/ IsSubstring(target, opts_norm[k]) }
    IN  IF incl # {} THEN MinOf(incl) - 1
        ELSE IF exact # {} THEN MinOf(exact) - 1
        ELSE FuzzyScan(opts_norm, target, 1, -1, <<-1, 1>>)

\* tn is <<target, opts_norm>>: the normalised candidate and options.
CascadeOn(tn) ==
    LET target    == tn[1]
        opts_norm == tn[2]
        exact     == { k \in DOMAIN opts_norm : opts_norm[k] = target }
        incl      == { k \in DOMAIN opts_norm :
                         /\ opts_norm[k] # <<>>
                         /\ \/ IsSubstring(opts_norm[k], target)
                            \/ IsSubstring(target, opts_norm[k]) }
    IN  IF exact # {} THEN MinOf(exact) - 1
        ELSE IF incl # {} THEN MinOf(incl) - 1
        ELSE FuzzyScan(opts_norm, target, 1, -1, <<-1, 1>>)

best_option_match(correct_text, opciones_texto) ==
    With(<< normalize_txt_strict(correct_text),
            [k \in DOMAIN opciones_texto |-> normalize_txt_strict(opciones_texto[k])] \o <<>> >>,
         CascadeOn)

\* The return statement of best_option_match that is reached: "exact"
\* (line 121), "inclusion" (line 125), "fuzzy" (line 133, best_r >= 0.80)
\* or "fallback" (line 134).  tn is <<target, opts_norm>>.
CascadeStage(tn) ==
    LET target    == tn[1]
        opts_norm == tn[2]
        exact     == { k \in DOMAIN opts_norm : opts_norm[k] = target }
        incl      == { k \in DOMAIN opts_norm :
                         /\ opts_norm[k] # <<>>
                         /\ \/ IsSubstring(opts_norm[k], target)
                            \/ IsSubstring(target, opts_norm[k]) }
        high(best_i) ==
            best_i >= 0 /\ ~RatioGT(<<4, 5>>, Ratio(opts_norm[best_i + 1], target))
    IN  IF exact # {} THEN "exact"
        ELSE IF incl # {} THEN "inclusion"
        ELSE IF With(FuzzyScan(opts_norm, target, 1, -1, <<-1, 1>>), high) THEN "fuzzy"
        ELSE "fallback"

match_stage(correct_text, opciones_texto) ==
    With(<< normalize_txt_strict(correct_text),
            [k \in DOMAIN opciones_texto |-> normalize_txt_strict(opciones_texto[k])] \o <<>> >>,
         CascadeStage)
-----------------------------------------------------------------------------
(* Bounded input domains of the text layer.                                *)

MaxTextLen == 4
MaxOpts == 2

RECURSIVE StringsUpTo(_, _)
StringsUpTo(alphabet, n) ==
    IF n = 0 THEN {<<>>}
    ELSE LET shorter == StringsUpTo(alphabet, n - 1)
         IN  shorter \cup { Append(s, c) : s \in shorter, c \in alphabet }

RECURSIVE SeqsUpTo(_, _)
SeqsUpTo(S, n) ==
    IF n = 0 THEN {<<>>}
    ELSE LET shorter == SeqsUpTo(S, n - 1)
         IN  shorter \cup { Append(s, x) : s \in shorter, x \in S }

NormAlphabet ==
    {"a", " ", ".", "'", ")"}

\* Inputs longer than MaxTextLen: doubly-encoded entities, stacked
\* citations, quote runs, punctuation after whitespace, accents and case.
NormSamples ==
    { <<"&","a","m","p",";","a","m","p",";">>,
      <<"&","a","m","p",";","l","t",";">>,
      <<"a","&","q","u","o","t",";","&","q","u","o","t",";","&","q","u","o","t",";","b">>,
      <<"x"," ","(","i","o"," ","1",")"," ","(","i","o"," ","2",")">>,
      <<"x"," ","(","A","R","T","."," ","1",")"," ","(","r","j"," ","2",")",".">>,
      <<"x"," ","(","i","o"," ","1",")"," ",".">>,
      <<"a","\"","\"","\"","\"","\"","\"","\"","b">>,
      <<"LDQUO","LDQUO","a","RDQUO","RDQUO">>,
      <<"a","RSQUO","RSQUO","RSQUO","RSQUO","b">>,
      <<"a"," ","."," ",";">>,
      <<"IQUEST","Q","u","e","\t"," ","e","s","?"," ","!">>,
      <<"E","x","p","u","l","s","i","o_ac","n">>,
      <<"f","a","l","t","a"," ","g","r","a","v","e"," ","(","a","r","t","."," ","1","2",")">> }

NormInputs ==
    StringsUpTo(NormAlphabet, MaxTextLen) \cup NormSamples

\* Candidate and option texts offered to the matcher.
MatchTexts ==
    { <<>>, <<"a">>, <<"a","b">>, <<"b","a">>, <<"A","b",".">>, <<"c","b">>,
      <<".">>, <<"a","b"," ","(","i","o"," ","1",")">> }

\* The fuzzy-match scenario: options Falta / Falta grave / Expulsion and the
\* candidate "falta grave (art. 12)".
ScenarioOpts ==
    << <<"F","a","l","t","a">>,
       <<"F","a","l","t","a"," ","g","r","a","v","e">>,
       <<"E","x","p","u","l","s","i","o_ac","n">> >>

ScenarioCand ==
    <<"f","a","l","t","a"," ","g","r","a","v","e"," ","(","a","r","t","."," ","1","2",")">>

-----------------------------------------------------------------------------
(* The grading oracle (the remote site), as the three programs see it.     *)
(* A served question is [id, btext, opts, cita]: the hidden id value, the  *)
(* text of its <b> element ("N) " and the prompt), its radio inputs as     *)
(* <<value, text>> pairs, and the citation the site appends to the correct *)
(* text when it discloses it.                                              *)

MaxQ == 3

Digits ==
    <<"1","2","3","4","5","6","7","8","9">>

QPool ==
    {
      [ id |-> "7", pregunta |-> <<"IQUEST","S","a","n","c","i","o","n","?">>,
        opts |-> << <<"a1", <<"F","a","l","t","a">>>>,
                    <<"a2", <<"F","a","l","t","a"," ","g","r","a","v","e">>>>,
                    <<"a3", <<"E","x","p","u","l","s","i","o_ac","n">>>> >>,
        cita |-> <<" ","(","A","R","T","."," ","1","2",")">> ],
      [ id |-> "8", pregunta |-> <<"IQUEST","V","a","l","e","?">>,
        opts |-> << <<"b1", <<"S","i">>>>,
                    <<"b2", <<"N","o">>>>,
                    <<"b3", <<"A"," ","v","e","c","e","s">>>> >>,
        cita |-> <<>> ],
      [ id |-> "", pregunta |-> <<"IQUEST","C","u","a","n","t","o","s","?">>,
        opts |-> << <<"c1", <<"U","n","o">>>>,
                    <<"c2", <<"D","o","s">>>>,
                    <<"c3", <<"T","r","e","s">>>> >>,
        cita |-> <<>> ],
      [ id |-> "9", pregunta |-> <<"IQUEST","G","o","l","?">>,
        opts |-> << <<"d1", <<"G","o","l">>>>,
                    <<"d2", <<"(","N","a","d","a",")">>>> >>,
        cita |-> <<" ","(","i","o"," ","3",")">> ] }

\* Sequences of distinct pool questions, at most n long.
RECURSIVE DistinctSeqs(_, _)
DistinctSeqs(S, n) ==
    IF n = 0 THEN {<<>>}
    ELSE LET shorter == DistinctSeqs(S, n - 1)
         IN  shorter \cup UNION { { Append(s, x) : x \in S \ { s[k] : k \in DOMAIN s } } :
                                     s \in shorter }

\* The test form generated from the pool questions ts.
Serve(ts) ==
    [k \in DOMAIN ts |->
        [ id |-> ts[k].id, btext |-> <<Digits[k], ")", " ">> \o ts[k].pregunta,
          opts |-> ts[k].opts, cita |-> ts[k].cita ]]

Exams(n) ==
    { Serve(ts) : ts \in DistinctSeqs(QPool, n) }

\* The answer keys the oracle may hold for test e: one correct option each.
Keys(e) ==
    [DOMAIN e -> 0..2] \cap { f \in [DOMAIN e -> 0..2] : \A k \in DOMAIN e : f[k] < Len(e[k].opts) }

Sites ==
    [layout : {"all", "wrong"}, score : BOOLEAN]

\* A payload is a set of form fields <<name, index, value>>.  Question k of
\* test e is answered right when the payload selects the option key t names.
AnsweredRight(e, t, payload, k) ==
    <<"opcion", k - 1, e[k].opts[t[k] + 1][1]>> \in payload

\* The text disclosed for question k when it is answered wrong.
Disclosed(e, t, k) ==
    e[k].opts[t[k] + 1][2] \o e[k].cita

\* The result page as a sequence of elements [tag, text]: per question a
\* <b> with its numbered prompt and, when it was answered wrong, a <u>
\* "Respuesta correcta:" followed by an <i> with the correct text.  Layout
\* "all" lists every question, layout "wrong" only those answered wrong.
RECURSIVE ResultPage(_, _, _, _, _)
ResultPage(e, t, layout, payload, k) ==
    IF k > Len(e) THEN <<>>
    ELSE LET b == <<[tag |-> "b", text |-> e[k].btext]>>
             c == <<[tag |-> "u", text |-> <<>>], [tag |-> "i", text |-> Disclosed(e, t, k)]>>
         IN  (IF AnsweredRight(e, t, payload, k)
              THEN (IF layout = "all" THEN b ELSE <<>>)
              ELSE b \o c)
             \o ResultPage(e, t, layout, payload, k + 1)

\* One grading round-trip: the score line ("Tienes N aciertos sobre M") when
\* the site shows it, and the page.
Grade(e, t, s, payload) ==
    [ score |-> IF s.score
                THEN <<Cardinality({ k \in DOMAIN e : AnsweredRight(e, t, payload, k) })>>
                ELSE <<>>,
      page  |-> ResultPage(e, t, s.layout, payload, 1) ]

NoResp ==
    [score |-> <<>>, page |-> <<>>]
-----------------------------------------------------------------------------
(* test_extractor.py                                                       *)

LETTERS ==
    SubSeq(UpperChars, 1, 26)

\* re.sub(r"^\s*\d+\)\s*", "", s)
StripNumPrefix(s) ==
    LET t == LStrip(s)
        d == CHOOSE n \in 0..Len(t) :
                /\ \A k \in 1..n : t[k] \in { Digits[j] : j \in DOMAIN Digits } \cup {"0"}
                /\ (n < Len(t) => t[n + 1] \notin { Digits[j] : j \in DOMAIN Digits } \cup {"0"})
    IN  IF d > 0 /\ d < Len(t) /\ t[d + 1] = ")" THEN LStrip(Drop(t, d + 1)) ELSE s

\* parse_test_form: <<preguntas, opciones_map>>; id_map[i] is
\* preguntas[i + 1].id_pregunta.  Options lacking a value or a text are dropped.
parse_test_form(form) ==
    LET keep(k) == SelectSeq([j \in DOMAIN form[k].opts |->
                                 <<form[k].opts[j][1], clean_visible_text(form[k].opts[j][2])>>],
                             LAMBDA o : o[1] # "" /\ o[2] # <<>>)
    IN  << [k \in DOMAIN form |->
              [ idx |-> k - 1,
                id_pregunta |-> form[k].id,
                pregunta |-> Strip(StripNumPrefix(clean_visible_text(form[k].btext))),
                opciones_texto |-> [j \in DOMAIN keep(k) |-> keep(k)[j][2]] ]],
           [k \in DOMAIN form |-> keep(k)] >>

\* A payload that marks the last option of every question.
BuildLastOptionPayload(pregs, omap) ==
    { <<"id", pregs[k].idx, pregs[k].id_pregunta>> : k \in DOMAIN pregs }
    \cup { <<"opcion", k - 1, omap[k][Len(omap[k])][1]>> :
              k \in { j \in DOMAIN omap : omap[j] # <<>> } }

\* build_all_A_payload: every id, and the first option's value of every
\* question that has options.
build_all_A_payload(pregs, omap) ==
    { <<"id", pregs[k].idx, pregs[k].id_pregunta>> : k \in DOMAIN pregs }
    \cup { <<"opcion", k - 1, omap[k][1][1]>> : k \in { j \in DOMAIN omap : omap[j] # <<>> } }

\* The first <i> after position p of the page, or 0.
NextI(page, p) ==
    LET qs == { q \in (p + 1)..Len(page) : page[q].tag = "i" }
    IN  IF qs = {} THEN 0 ELSE MinOf(qs)

\* The texts after each "Respuesta correcta" label, in page order.
RECURSIVE LabelledTexts(_, _, _)
LabelledTexts(page, p, keepEmpty) ==
    IF p > Len(page) THEN <<>>
    ELSE LET q   == NextI(page, p)
             txt == IF q = 0 THEN <<>> ELSE clean_visible_text(page[q].text)
         IN  (IF page[p].tag = "u" /\ q # 0 /\ (keepEmpty \/ txt # <<>>)
              THEN <<txt>> ELSE <<>>)
             \o LabelledTexts(page, p + 1, keepEmpty)

\* parse_correct_answers_from_results: the texts in order of appearance;
\* the regex fallback runs when the first pass found none.
parse_correct_answers_from_results(page) ==
    LET first == LabelledTexts(page, 1, FALSE)
    IN  IF first # <<>> THEN first ELSE LabelledTexts(page, 1, TRUE)

to_letter(idx0) ==
    IF 0 <= idx0 /\ idx0 < Len(LETTERS) THEN <<LETTERS[idx0 + 1]>> ELSE <<>>

\* while len(correct_texts) < len(preguntas): correct_texts.append("")
PadTo(texts, n) ==
    texts \o [k \in 1..(IF n > Len(texts) THEN n - Len(texts) ELSE 0) |-> <<>>]

\* A step 6 that stores the disclosed text itself beside the letter.
MapOneDisclosedText(p, correct_txt) ==
    LET out(pos) == << to_letter(pos), correct_txt >>
    IN  IF correct_txt = <<>> THEN << <<>>, <<>> >>
        ELSE With(best_option_match(correct_txt, p.opciones_texto), out)

\* Step 6 of main for the pair (p, correct_txt) of the zip: <<letter, text>>.
\* (The zip stops at the shorter list; the padding makes the lists equal.)
MapOne(p, correct_txt) ==
    LET out(pos) ==
            << to_letter(pos),
               IF 0 <= pos /\ pos < Len(p.opciones_texto)
               THEN p.opciones_texto[pos + 1] ELSE <<>> >>
    IN  IF correct_txt = <<>> THEN << <<>>, <<>> >>
        ELSE With(best_option_match(correct_txt, p.opciones_texto), out)

\* Steps 5-6 of main: <<correct_texts, correcta_letras, correcta_textos>>.
ResolveAll(pregs, page) ==
    LET zip(texts) ==
            LET pairs(ps) ==
                    << texts, [k \in DOMAIN pregs |-> ps[k][1]], [k \in DOMAIN pregs |-> ps[k][2]] >>
            IN  With([k \in DOMAIN pregs |-> MapOne(pregs[k], texts[k])] \o <<>>, pairs)
    IN  With(PadTo(parse_correct_answers_from_results(page), Len(pregs)), zip)

\* write_json_with_correct
write_json_with_correct(pregs, letras, textos) ==
    [k \in DOMAIN pregs |->
        [ id_pregunta    |-> pregs[k].id_pregunta,
          pregunta       |-> pregs[k].pregunta,
          opciones       |-> pregs[k].opciones_texto,
          correcta       |-> letras[k],
          correcta_texto |-> textos[k] ]]

ExtIdle ==
    /\ pcE = "idle"
    /\ preguntas = <<>>
    /\ opciones_map = <<>>
    /\ correct_texts = <<>>
    /\ correcta_letras = <<>>
    /\ correcta_textos = <<>>
    /\ out_json = <<>>

OracleIdle ==
    /\ exam = <<>>
    /\ truth = <<>>
    /\ site = [layout |-> "all", score |-> TRUE]
    /\ posts = <<>>
    /\ resp = NoResp

\* Steps 1-3 of main: the form is requested and parsed; without questions
\* main prints a warning and returns.
ExtGenerate ==
    /\ pcE = "start"
    /\ \E parsed \in {parse_test_form(exam)} :
           /\ preguntas' = parsed[1]
           /\ opciones_map' = parsed[2]
           /\ pcE' = IF parsed[1] = <<>> THEN "returned" ELSE "parsed"
    /\ UNCHANGED <<correct_texts, correcta_letras, correcta_textos, out_json>>
    /\ UNCHANGED <<textVars, oracleVars, colVars, solVars>>

\* Step 4: the all-A payload is posted to the grading URL.
ExtGrade ==
    /\ pcE = "parsed"
    /\ \E payload \in {build_all_A_payload(preguntas, opciones_map)} :
           /\ posts' = Append(posts, payload)
           /\ resp' = Grade(exam, truth, site, payload)
    /\ pcE' = "graded"
    /\ UNCHANGED <<preguntas, opciones_map, correct_texts, correcta_letras,
                   correcta_textos, out_json>>
    /\ UNCHANGED <<textVars, exam, truth, site, colVars, solVars>>

\* Steps 5-6: the disclosed texts are read, padded and zipped with the
\* questions by position.
ExtResolve ==
    /\ pcE = "graded"
    /\ \E r \in {ResolveAll(preguntas, resp.page)} :
           /\ correct_texts' = r[1]
           /\ correcta_letras' = r[2]
           /\ correcta_textos' = r[3]
    /\ pcE' = "resolved"
    /\ UNCHANGED <<preguntas, opciones_map, out_json>>
    /\ UNCHANGED <<textVars, oracleVars, colVars, solVars>>

\* Step 7: the export.
ExtExport ==
    /\ pcE = "resolved"
    /\ out_json' = write_json_with_correct(preguntas, correcta_letras, correcta_textos)
    /\ pcE' = "done"
    /\ UNCHANGED <<preguntas, opciones_map, correct_texts, correcta_letras, correcta_textos>>
    /\ UNCHANGED <<textVars, oracleVars, colVars, solVars>>

\* raise_for_status() in http_get / http_post: a request fails and main
\* ends with the exception.
ExtRequestFails ==
    /\ pcE \in {"start", "parsed"}
    /\ pcE' = "crashed"
    /\ UNCHANGED <<preguntas, opciones_map, correct_texts, correcta_letras,
                   correcta_textos, out_json>>
    /\ UNCHANGED <<textVars, oracleVars, colVars, solVars>>
-----------------------------------------------------------------------------
(* collector.py                                                            *)

MaxBatch == 2
MaxMerges == 2
MaxIter == 6

\* An optional value is <<v>>, or <<>> for None.
None ==
    <<>>

\* The oracle is deterministic: the correct option of each pool question.
PoolTruth(e) ==
    [k \in DOMAIN e |->
        CASE e[k].id = "7" -> 1
          [] e[k].id = "8" -> 0
          [] e[k].id = "9" -> 1
          [] OTHER         -> 2]

\* One whole run of test_extractor.py's main on test e: <<the exported
\* list>>, or None when main returns before the export.
ExtractorRun(e, t, s) ==
    LET export(parsed) ==
            LET out(r) == write_json_with_correct(parsed[1], r[2], r[3])
            IN  With(ResolveAll(parsed[1],
                                Grade(e, t, s, build_all_A_payload(parsed[1], parsed[2])).page),
                     out)
        run(parsed) == IF parsed[1] = <<>> THEN None ELSE <<export(parsed)>>
    IN  With(parse_test_form(e), run)

\* The lists "como exporta test_extractor.py" that merge_into_map is given.
ExtractedLists ==
    { r[1] : r \in { ExtractorRun(e, PoolTruth(e), s) : e \in Exams(MaxBatch), s \in Sites }
                  \ {None} }

\* key = p.get("id_pregunta") or p.get("id") or None, else the fallback
\* f"idx{p.get('idx')}_{p.get('pregunta') or p.get('enunciado')}".  An
\* exported record has no "id", "idx" or "enunciado" field.
KeyOf(p) ==
    IF p.id_pregunta # "" THEN <<p.id_pregunta>>
    ELSE <<"i","d","x","N","o","n","e","_">>
         \o (IF p.pregunta # <<>> THEN p.pregunta ELSE <<"N","o","n","e">>)

\* A dict is a sequence of <<key, value>> pairs in insertion order.
HasKey(map, key) ==
    \E k \in DOMAIN map : map[k][1] = key

Values(map) ==
    [k \in DOMAIN map |-> map[k][2]]

\* A merge that assigns existing_map[key] = p for every p of the list.
RECURSIVE MergeLoopOverwrite(_, _, _, _)
MergeLoopOverwrite(map, new_items, extracted_list, n) ==
    IF n > Len(extracted_list) THEN [map |-> map, new_items |-> new_items]
    ELSE LET p   == extracted_list[n]
             key == KeyOf(p)
         IN  IF ~HasKey(map, key)
             THEN MergeLoopOverwrite(Append(map, <<key, p>>), Append(new_items, p),
                                     extracted_list, n + 1)
             ELSE MergeLoopOverwrite([k \in DOMAIN map |->
                                         IF map[k][1] = key THEN <<key, p>> ELSE map[k]],
                                     new_items, extracted_list, n + 1)

\* The loop of merge_into_map from element n of the list on:
\* [map, new_items] after it.
RECURSIVE MergeLoop(_, _, _, _)
MergeLoop(map, new_items, extracted_list, n) ==
    IF n > Len(extracted_list) THEN [map |-> map, new_items |-> new_items]
    ELSE LET p   == extracted_list[n]
             key == KeyOf(p)
         IN  IF ~HasKey(map, key)
             THEN MergeLoop(Append(map, <<key, p>>), Append(new_items, p), extracted_list, n + 1)
             ELSE MergeLoop(map, new_items, extracted_list, n + 1)

\* A merge whose first result counts the records of the list.
MergeReturnsBatchSize(map, extracted_list) ==
    LET out(r) == [ map |-> r.map,
                    ret |-> <<Len(extracted_list), Len(r.map), r.new_items>> ]
    IN  With(MergeLoop(map, <<>>, extracted_list, 1), out)

\* merge_into_map: the map after the call and the returned triple.
merge_into_map(map, extracted_list) ==
    LET out(r) == [ map |-> r.map,
                    ret |-> <<Len(r.new_items), Len(r.map), r.new_items>> ]
    IN  With(MergeLoop(map, <<>>, extracted_list, 1), out)

\* An element of the loaded JSON list that is not an object: p.get raises
\* on it.
NotADict ==
    [not_a_dict |-> TRUE]

IsDict(p) ==
    "id_pregunta" \in DOMAIN p

\* The loading loop of main: existing_map[key] = p for each p of the file.
\* An element without .get raises inside the try: the except branch only
\* prints, and existing_map keeps what was assigned before.
RECURSIVE LoadLoop(_, _, _)
LoadLoop(map, prev, n) ==
    IF n > Len(prev) THEN map
    ELSE IF ~IsDict(prev[n]) THEN map
    ELSE LET p   == prev[n]
             key == KeyOf(p)
         IN  LoadLoop(IF HasKey(map, key)
                      THEN [k \in DOMAIN map |-> IF map[k][1] = key THEN <<key, p>> ELSE map[k]]
                      ELSE Append(map, <<key, p>>),
                      prev, n + 1)

\* The lists merge_into_map is called with: the exported lists, and lists
\* in which one key occurs twice.
ExportedRecords ==
    UNION { { x[n] : n \in DOMAIN x } : x \in ExtractedLists }

MergeBatches ==
    ExtractedLists
    \cup { <<ab[1], ab[2]>> :
              ab \in { x \in ExportedRecords \X ExportedRecords : KeyOf(x[1]) = KeyOf(x[2]) } }

\* The output file: absent, unreadable as JSON, or a list of records.
NoFile ==
    [exists |-> FALSE, json |-> FALSE, data |-> <<>>]

PrevFiles ==
    {NoFile, [exists |-> TRUE, json |-> FALSE, data |-> <<>>]}
    \cup { [exists |-> TRUE, json |-> TRUE, data |-> d] : d \in ExtractedLists \cup {<<>>} }
    \cup { [exists |-> TRUE, json |-> TRUE, data |-> d \o d2] :
              d \in ExtractedLists, d2 \in { x \in ExtractedLists : Len(x) = 1 } }
    \cup { [exists |-> TRUE, json |-> TRUE, data |-> SubSeq(d, 1, n) \o <<NotADict>> \o SubSeq(d, n + 1, Len(d))] :
              d \in { x \in ExtractedLists : Len(x) = MaxBatch }, n \in 0..1 }

\* How the extractor process ends: subprocess.run raises, or it returns with
\* an exit code and, at the path given by --export-json, the file written.
ProcOutcomes ==
    {[raised |-> TRUE, returncode |-> 0, written |-> None]}
    \cup { [raised |-> FALSE, returncode |-> c, written |-> None] : c \in {0, 1, 2} }
    \cup { [raised |-> FALSE, returncode |-> 0, written |-> <<w>>] : w \in ExtractedLists }

\* An extractor run whose exported file is read back.
RunExtractorReadsTmp(proc) ==
    IF proc.raised \/ proc.returncode # 0 THEN None ELSE proc.written

\* run_extractor as main calls it: tmp_out keeps its default "", which is
\* not None, so no temporary file is made; load_json("") reads Path(""),
\* the current directory, and read_text raises, which is caught.
run_extractor(proc) ==
    LET tmp_out == ""
        load_json_tmp == IF tmp_out = "" THEN None ELSE proc.written
    IN  IF proc.raised THEN None
        ELSE IF proc.returncode # 0 THEN None
        ELSE load_json_tmp

ArgSets ==
    [target : {0, 1, 3}, max_iter : {0, 2}, stop_after_no_new : {0, 2, 5}]

ColIdle ==
    /\ existing_map = <<>>
    /\ merge_log = <<>>
    /\ merge_ret = <<>>
    /\ out_file = NoFile
    /\ args = [target |-> 0, max_iter |-> 0, stop_after_no_new |-> 5]
    /\ pcC = "idle"
    /\ iter_count = 0
    /\ no_new_streak = 0

\* One call merge_into_map(existing_map, extracted_list).
MergeCall ==
    /\ pcC = "merging"
    /\ iter_count < MaxMerges
    /\ \E extracted_list \in MergeBatches :
       \E r \in {merge_into_map(existing_map, extracted_list)} :
           /\ existing_map' = r.map
           /\ merge_ret' = r.ret
           /\ merge_log' = merge_log \o [k \in DOMAIN extracted_list |->
                                            <<KeyOf(extracted_list[k]), extracted_list[k]>>]
    /\ iter_count' = iter_count + 1
    /\ UNCHANGED <<out_file, args, pcC, no_new_streak>>
    /\ UNCHANGED <<textVars, oracleVars, extVars, solVars>>

\* main up to the loop: the previous output file, when it exists and can be
\* read, is loaded into existing_map.
ColLoad ==
    /\ pcC = "start"
    /\ existing_map' = IF out_file.exists /\ out_file.json
                       THEN LoadLoop(<<>>, out_file.data, 1) ELSE <<>>
    /\ pcC' = "loop"
    /\ UNCHANGED <<merge_log, merge_ret, out_file, args, iter_count, no_new_streak>>
    /\ UNCHANGED <<textVars, oracleVars, extVars, solVars>>

\* A loop that stops on the target alone.
StopOnTargetOnly(a, total, streak) ==
    a.target # 0 /\ total >= a.target

\* The stop conditions at the end of an iteration: the target is reached,
\* or the streak of iterations without a new question reached its limit.
StopNow(a, total, streak) ==
    \/ a.target # 0 /\ total >= a.target
    \/ a.stop_after_no_new # 0 /\ streak >= a.stop_after_no_new

\* One iteration of the while loop of main, from iter_count += 1 to the
\* stop conditions (or to the break at max-iter).
ColIterate ==
    /\ pcC = "loop"
    /\ iter_count < MaxIter
    /\ iter_count' = iter_count + 1
    /\ \E proc \in ProcOutcomes :
       \E extracted \in {run_extractor(proc)} :
       \E r \in {merge_into_map(existing_map, IF extracted = None THEN <<>> ELSE extracted[1])} :
          IF args.max_iter # 0 /\ iter_count' > args.max_iter
          THEN /\ pcC' = "stopped"
               /\ UNCHANGED <<existing_map, merge_log, merge_ret, out_file, no_new_streak>>
          ELSE /\ IF extracted = None
                  THEN /\ no_new_streak' = no_new_streak + 1
                       /\ UNCHANGED <<existing_map, merge_log, merge_ret, out_file>>
                  ELSE /\ existing_map' = r.map
                       /\ merge_ret' = r.ret
                       /\ merge_log' = merge_log \o [k \in DOMAIN extracted[1] |->
                                                        <<KeyOf(extracted[1][k]), extracted[1][k]>>]
                       /\ no_new_streak' = IF r.ret[1] > 0 THEN 0 ELSE no_new_streak + 1
                       /\ out_file' = [exists |-> TRUE, json |-> TRUE, data |-> Values(r.map)]
               /\ pcC' = IF StopNow(args, Len(existing_map'), no_new_streak')
                         THEN "stopped" ELSE "loop"
    /\ UNCHANGED args
    /\ UNCHANGED <<textVars, oracleVars, extVars, solVars>>

\* A later invocation of the collector on the same output file: main starts
\* again with an empty existing_map and its counters at 0.
ColRestart ==
    /\ pcC = "stopped"
    /\ pcC' = "start"
    /\ args' \in ArgSets
    /\ existing_map' = <<>>
    /\ merge_log' = <<>>
    /\ merge_ret' = <<>>
    /\ iter_count' = 0
    /\ no_new_streak' = 0
    /\ UNCHANGED out_file
    /\ UNCHANGED <<textVars, oracleVars, extVars, solVars>>
-----------------------------------------------------------------------------
(* checker.py                                                              *)

MaxSolQ == 2
MaxKB == 2

\* letter(i): A..Z, AA.. for the 0-based index i.
RECURSIVE LetterLoop(_, _)
LetterLoop(i, s) ==
    IF i > 0
    THEN LetterLoop((i - 1) \div 26, <<LETTERS[((i - 1) % 26) + 1]>> \o s)
    ELSE s

letter(i) ==
    LetterLoop(i + 1, <<>>)

\* norm_text: lower, strip, runs of whitespace to one space.
norm_text(s) ==
    CollapseWs(Strip(Lower(s)))

\* parse_test_html: the questions of the form; the prompt is the whole text
\* of the <b> element and no option is dropped.
parse_test_html(form) ==
    [k \in DOMAIN form |->
        [ idx |-> k - 1,
          id_pregunta |-> form[k].id,
          pregunta |-> Strip(form[k].btext),
          opciones_val |-> [j \in DOMAIN form[k].opts |-> form[k].opts[j][1]],
          opciones_texto |-> [j \in DOMAIN form[k].opts |->
                                 CollapseWs(Strip(form[k].opts[j][2]))] ]]

\* parse_score_from_results: <<N>> of "Tienes N aciertos sobre M", or None.
parse_score_from_results(r) ==
    r.score

\* re.match(r"(\d+)\)", t): <<the number>>, or <<>> without a match.
DigitVal(c) ==
    IF c = "0" THEN 0 ELSE CHOOSE d \in DOMAIN Digits : Digits[d] = c

IsDigit(c) ==
    c = "0" \/ \E d \in DOMAIN Digits : Digits[d] = c

RECURSIVE NumPrefix(_, _, _)
NumPrefix(t, p, acc) ==
    IF p <= Len(t) /\ IsDigit(t[p]) THEN NumPrefix(t, p + 1, 10 * acc + DigitVal(t[p]))
    ELSE IF p > 1 /\ p <= Len(t) /\ t[p] = ")" THEN <<acc>>
    ELSE <<>>

\* re.sub(r"\s*\(.*?\)\s*$", "", corr).strip(): the match starts at the
\* first "(" (with the whitespace before it) when the text ends with ")".
StripTrailingParen(corr) ==
    LET r     == RStripSet(corr, {" ", "\t", "\n"})
        opens == { p \in 1..(Len(r) - 1) : r[p] = "(" }
    IN  IF r # <<>> /\ r[Len(r)] = ")" /\ opens # {}
        THEN Strip(Take(corr, MinOf(opens) - 1))
        ELSE Strip(corr)

\* b.find_next("u", ...) and u.find_next("i"): the first such element after
\* position p of the document, or 0.
FindNext(page, p, tag) ==
    LET qs == { q \in (p + 1)..Len(page) : page[q].tag = tag }
    IN  IF qs = {} THEN 0 ELSE MinOf(qs)

\* parse_correct_from_results, from element p of the page on: the dict
\* idx -> text as a function.
RECURSIVE CorrectFrom(_, _, _)
CorrectFrom(page, p, out) ==
    IF p > Len(page) THEN out
    ELSE LET m == IF page[p].tag = "b" THEN NumPrefix(Strip(page[p].text), 1, 0) ELSE <<>>
             u == FindNext(page, p, "u")
             i == IF u = 0 THEN 0 ELSE FindNext(page, u, "i")
         IN  IF m = <<>> \/ u = 0 \/ i = 0 THEN CorrectFrom(page, p + 1, out)
             ELSE CorrectFrom(page, p + 1,
                              [x \in DOMAIN out \cup {m[1] - 1} |->
                                  IF x = m[1] - 1 THEN StripTrailingParen(Strip(page[i].text))
                                  ELSE out[x]])

parse_correct_from_results(page) ==
    CorrectFrom(page, 1, <<>>)

\* A knowledge-base entry as the solver reads it: id_pregunta (or id),
\* pregunta (or enunciado, question), opciones, correcta, correct_text (or
\* respuesta, solucion_texto) and solucion; an absent field is "" / <<>> / 0.
KBEntries ==
    { [ id_pregunta |-> "8", pregunta |-> <<"IQUEST","V","a","l","e","?">>,
        opciones |-> << <<"S","i">>, <<"N","o">>, <<"A"," ","v","e","c","e","s">> >>,
        correcta |-> <<"A">>, correct_text |-> <<>>, solucion |-> 0 ],
      [ id_pregunta |-> "7", pregunta |-> <<"IQUEST","S","a","n","c","i","o","n","?">>,
        opciones |-> << <<"F","a","l","t","a">>,
                        <<"F","a","l","t","a"," ","g","r","a","v","e">>,
                        <<"E","x","p","u","l","s","i","o_ac","n">> >>,
        correcta |-> <<>>, correct_text |-> <<"f","a","l","t","a"," "," ","G","R","A","V","E">>,
        solucion |-> 0 ],
      [ id_pregunta |-> "", pregunta |-> <<"1",")"," ","IQUEST","C","u","a","n","t","o","s","?">>,
        opciones |-> << <<"U","n","o">>, <<"D","o","s">>, <<"T","r","e","s">> >>,
        correcta |-> <<"c">>, correct_text |-> <<>>, solucion |-> 0 ],
      [ id_pregunta |-> "", pregunta |-> <<" ","1",")"," "," ","IQUEST","c","u","a","n","t","o","s","?">>,
        opciones |-> <<>>,
        correcta |-> <<"B">>, correct_text |-> <<>>, solucion |-> 0 ],
      [ id_pregunta |-> "8", pregunta |-> <<>>,
        opciones |-> << <<"N","o">>, <<"S","i">>, <<"A"," ","v","e","c","e","s">> >>,
        correcta |-> <<"B">>, correct_text |-> <<>>, solucion |-> 0 ],
      [ id_pregunta |-> "9", pregunta |-> <<"1",")"," ","IQUEST","V","a","l","e","?">>,
        opciones |-> <<>>,
        correcta |-> <<>>, correct_text |-> <<>>, solucion |-> 2 ] }

KBs ==
    SeqsUpTo(KBEntries, MaxKB)

\* build_kb_indices: by_id maps an identifier to the position in kb of the
\* last entry that has it; by_text maps a normalised prompt to the positions
\* of the entries that have it, in insertion order.  Entries without an
\* identifier, respectively without a prompt, are left out of the index.
build_kb_indices(kb) ==
    LET ids   == { kb[n].id_pregunta : n \in DOMAIN kb } \ {""}
        texts == { norm_text(kb[n].pregunta) : n \in { j \in DOMAIN kb : kb[j].pregunta # <<>> } }
        pos(t) == { n \in DOMAIN kb : kb[n].pregunta # <<>> /\ norm_text(kb[n].pregunta) = t }
        RECURSIVE Asc(_)
        Asc(S) == IF S = {} THEN <<>> ELSE <<MinOf(S)>> \o Asc(S \ {MinOf(S)})
    IN  << [key \in ids |->
               CHOOSE n \in DOMAIN kb :
                   /\ kb[n].id_pregunta = key
                   /\ \A j \in DOMAIN kb : kb[j].id_pregunta = key => j <= n],
           [t \in texts |-> Asc(pos(t))] >>

\* A lookup that tries the prompt text before the identifier.
KbLookupTextFirst(p, kb_by_id, kb_by_text) ==
    IF norm_text(p.pregunta) \in DOMAIN kb_by_text /\ kb_by_text[norm_text(p.pregunta)] # <<>>
    THEN <<kb_by_text[norm_text(p.pregunta)][1]>>
    ELSE IF p.id_pregunta # "" /\ p.id_pregunta \in DOMAIN kb_by_id
    THEN <<kb_by_id[p.id_pregunta]>>
    ELSE <<>>

\* The lookup at the head of choose_from_kb: <<the position of entry>>, or
\* None.
KbLookup(p, kb_by_id, kb_by_text) ==
    IF p.id_pregunta # "" /\ p.id_pregunta \in DOMAIN kb_by_id
    THEN <<kb_by_id[p.id_pregunta]>>
    ELSE IF norm_text(p.pregunta) \in DOMAIN kb_by_text /\ kb_by_text[norm_text(p.pregunta)] # <<>>
    THEN <<kb_by_text[norm_text(p.pregunta)][1]>>
    ELSE <<>>

\* str.upper() of an ASCII letter.
UpperOf(c) ==
    IF \E k \in 1..26 : LowerChars[k] = c
    THEN LETTERS[CHOOSE k \in 1..26 : LowerChars[k] = c]
    ELSE c

\* kb_get_answer_letter: the letter as a text, or <<>> for None.
kb_get_answer_letter(entry) ==
    LET v     == Strip(entry.correcta)
        byTxt == { i \in DOMAIN entry.opciones :
                     norm_text(entry.opciones[i]) = norm_text(entry.correct_text) }
    IN  IF Len(v) = 1 /\ \E k \in 1..26 : v[1] \in {LETTERS[k], LowerChars[k]}
        THEN <<UpperOf(v[1])>>
        ELSE IF entry.correct_text # <<>> /\ byTxt # {}
        THEN letter(MinOf(byTxt) - 1)
        ELSE IF 1 <= entry.solucion /\ entry.solucion <= 26
        THEN <<LETTERS[entry.solucion]>>
        ELSE <<>>

\* choose_from_kb after the lookup: <<the position to mark>> or None.
ChooseFromEntry(p, entry) ==
    LET L      == kb_get_answer_letter(entry)
        pos    == CHOOSE k \in DOMAIN LETTERS : LETTERS[k] = L[1]
        byTxt  == { i \in DOMAIN p.opciones_texto :
                      norm_text(p.opciones_texto[i]) = norm_text(entry.correct_text) }
    IN  IF Len(L) = 1 /\ pos - 1 < Len(p.opciones_texto) THEN <<pos - 1>>
        ELSE IF entry.correct_text # <<>> /\ byTxt # {} THEN <<MinOf(byTxt) - 1>>
        ELSE <<>>

choose_from_kb(p, kb, kb_by_id, kb_by_text) ==
    LET e == KbLookup(p, kb_by_id, kb_by_text)
    IN  IF e = <<>> THEN <<>> ELSE ChooseFromEntry(p, kb[e[1]])

\* pos = max(0, min(pos, len(p.opciones_val) - 1)) for a list of n values.
ClampPos(pos, n) ==
    LET m == IF pos < n - 1 THEN pos ELSE n - 1
    IN  IF m > 0 THEN m ELSE 0

\* p.opciones_val[pos] raises IndexError for a question of pregs.
PayloadRaises(pregs, chosen) ==
    \E k \in DOMAIN pregs :
        ClampPos(chosen[k], Len(pregs[k].opciones_val)) >= Len(pregs[k].opciones_val)

\* build_payload_from_choices; chosen[k] is chosen_positions[idx] of
\* question k.
build_payload_from_choices(pregs, chosen) ==
    { <<"id", pregs[k].idx, pregs[k].id_pregunta>> : k \in DOMAIN pregs }
    \cup { <<"opcion", pregs[k].idx,
             pregs[k].opciones_val[ClampPos(chosen[k], Len(pregs[k].opciones_val)) + 1]>> :
           k \in DOMAIN pregs }

\* A row of the test form with its hidden id input and no radio input.
NoRadios ==
    [ id |-> "5", pregunta |-> <<"IQUEST","N","a","d","a","?">>, opts |-> <<>>, cita |-> <<>> ]

\* The test forms the solver is run on: the oracle's, and those followed by
\* a row without radio inputs.
SolExams ==
    Exams(MaxSolQ)
    \cup { Serve(Append(ts, NoRadios)) : ts \in DistinctSeqs(QPool, MaxSolQ - 1) }

SolIdle ==
    /\ pcS = "idle"
    /\ kb_list = <<>>
    /\ sol_preguntas = <<>>
    /\ kb_entry = <<>>
    /\ chosen_positions = <<>>
    /\ score = <<>>
    /\ correct_by_idx = <<>>
    /\ aciertos = 0
    /\ wrong_blocks = <<>>
    /\ export_items = <<>>

\* Steps 1-3 of main: the test is generated and parsed; without questions
\* main raises RuntimeError.
SolGenerate ==
    /\ pcS = "start"
    /\ sol_preguntas' = parse_test_html(exam)
    /\ pcS' = IF sol_preguntas' = <<>> THEN "crashed" ELSE "parsed"
    /\ UNCHANGED <<kb_list, kb_entry, chosen_positions, score, correct_by_idx, aciertos,
                   wrong_blocks, export_items>>
    /\ UNCHANGED <<textVars, oracleVars, extVars, colVars>>

\* Step 4: a position is chosen for every question from the knowledge base,
\* position 0 when it gives none.
SolChoose ==
    /\ pcS = "parsed"
    /\ \E ix \in {build_kb_indices(kb_list)} :
           /\ kb_entry' = [k \in DOMAIN sol_preguntas |->
                              KbLookup(sol_preguntas[k], ix[1], ix[2])]
           /\ chosen_positions' =
                  [k \in DOMAIN sol_preguntas |->
                      LET pos == choose_from_kb(sol_preguntas[k], kb_list, ix[1], ix[2])
                      IN  IF pos = <<>> THEN 0 ELSE pos[1]]
    /\ pcS' = "chosen"
    /\ UNCHANGED <<kb_list, sol_preguntas, score, correct_by_idx, aciertos, wrong_blocks,
                   export_items>>
    /\ UNCHANGED <<textVars, oracleVars, extVars, colVars>>

\* Step 5: the payload is built, posted once, and the response is parsed;
\* an IndexError in build_payload_from_choices ends main before the post.
SolSubmit ==
    /\ pcS = "chosen"
    /\ IF PayloadRaises(sol_preguntas, chosen_positions)
       THEN /\ pcS' = "crashed"
            /\ UNCHANGED <<posts, resp, score, correct_by_idx>>
       ELSE /\ \E payload \in {build_payload_from_choices(sol_preguntas, chosen_positions)} :
               \E r \in {Grade(exam, truth, site, payload)} :
                   /\ posts' = Append(posts, payload)
                   /\ resp' = r
                   /\ score' = parse_score_from_results(r)
                   /\ correct_by_idx' = parse_correct_from_results(r.page)
            /\ pcS' = "graded"
    /\ UNCHANGED <<kb_list, sol_preguntas, kb_entry, chosen_positions, aciertos,
                   wrong_blocks, export_items>>
    /\ UNCHANGED <<textVars, exam, truth, site, extVars, colVars>>

\* Step 6: the report; a question is listed as failed when the text stored
\* for its idx is truthy.
SolReport ==
    /\ pcS = "graded"
    /\ aciertos' = IF score # <<>> THEN score[1] ELSE 0
    /\ export_items' =
           [k \in DOMAIN sol_preguntas |->
               [ idx |-> sol_preguntas[k].idx,
                 id_pregunta |-> sol_preguntas[k].id_pregunta,
                 pregunta |-> sol_preguntas[k].pregunta,
                 opciones |-> sol_preguntas[k].opciones_texto,
                 elegida_letra |-> letter(chosen_positions[k]),
                 elegida_texto |-> sol_preguntas[k].opciones_texto[chosen_positions[k] + 1],
                 correcta_texto |-> IF sol_preguntas[k].idx \in DOMAIN correct_by_idx
                                    THEN <<correct_by_idx[sol_preguntas[k].idx]>>
                                    ELSE None ]]
    /\ wrong_blocks' =
           LET failed(p) == /\ p.idx \in DOMAIN correct_by_idx
                            /\ correct_by_idx[p.idx] # <<>>
           IN  [k \in DOMAIN SelectSeq(sol_preguntas, failed) |->
                   SelectSeq(sol_preguntas, failed)[k].idx]
    /\ pcS' = "done"
    /\ UNCHANGED <<kb_list, sol_preguntas, kb_entry, chosen_positions, score, correct_by_idx>>
    /\ UNCHANGED <<textVars, oracleVars, extVars, colVars>>

\* raise_for_status() in http_get / http_post: a request fails and main
\* ends with the exception.
SolRequestFails ==
    /\ pcS \in {"start", "chosen"}
    /\ pcS' = "crashed"
    /\ UNCHANGED <<kb_list, sol_preguntas, kb_entry, chosen_positions, score, correct_by_idx,
                   aciertos, wrong_blocks, export_items>>
    /\ UNCHANGED <<textVars, oracleVars, extVars, colVars>>
-----------------------------------------------------------------------------
(* Specification of the text normaliser: one input, applied twice.         *)

NormIdle ==
    txt_in = <<>> /\ txt_out = <<>>

MatchIdle ==
    m_cand = <<>> /\ m_opts = <<>> /\ m_ret = <<>>

InitNorm ==
    /\ txt_in \in NormInputs
    /\ txt_out = <<>>
    /\ MatchIdle
    /\ OracleIdle
    /\ ExtIdle
    /\ ColIdle
    /\ SolIdle

\* y = normalize_txt_strict(x), then z = normalize_txt_strict(y).
NormApply ==
    /\ Len(txt_out) < 2
    /\ txt_out' = Append(txt_out,
                         normalize_txt_strict(IF txt_out = <<>> THEN txt_in
                                              ELSE txt_out[Len(txt_out)]))
    /\ UNCHANGED <<txt_in, m_cand, m_opts, m_ret>>
    /\ UNCHANGED <<oracleVars, extVars, colVars, solVars>>

NextNorm ==
    NormApply

SpecNorm ==
    InitNorm /\ [][NextNorm]_vars

(* Specification of the fuzzy matcher: one call of best_option_match.      *)

InitMatch ==
    /\ \/ m_cand \in MatchTexts /\ m_opts \in SeqsUpTo(MatchTexts, MaxOpts)
       \/ m_cand = ScenarioCand /\ m_opts = ScenarioOpts
    /\ m_ret = <<>>
    /\ NormIdle
    /\ OracleIdle
    /\ ExtIdle
    /\ ColIdle
    /\ SolIdle

MatchCall ==
    /\ m_ret = <<>>
    /\ m_ret' = <<best_option_match(m_cand, m_opts)>>
    /\ UNCHANGED <<txt_in, txt_out, m_cand, m_opts>>
    /\ UNCHANGED <<oracleVars, extVars, colVars, solVars>>

NextMatch ==
    MatchCall

SpecMatch ==
    InitMatch /\ [][NextMatch]_vars

(* Specification of one extractor run against the oracle.                  *)

InitExtractor ==
    /\ exam \in Exams(MaxQ)
    /\ truth \in Keys(exam)
    /\ site \in Sites
    /\ posts = <<>>
    /\ resp = NoResp
    /\ pcE = "start"
    /\ preguntas = <<>>
    /\ opciones_map = <<>>
    /\ correct_texts = <<>>
    /\ correcta_letras = <<>>
    /\ correcta_textos = <<>>
    /\ out_json = <<>>
    /\ NormIdle
    /\ MatchIdle
    /\ ColIdle
    /\ SolIdle

NextExtractor ==
    \/ ExtGenerate
    \/ ExtGrade
    \/ ExtResolve
    \/ ExtExport
    \/ ExtRequestFails

SpecExtractor ==
    InitExtractor /\ [][NextExtractor]_vars


(* Specification of merge_into_map: a sequence of calls on one map.        *)

InitMerge ==
    /\ existing_map = <<>>
    /\ merge_log = <<>>
    /\ merge_ret = <<>>
    /\ out_file = NoFile
    /\ args = [target |-> 0, max_iter |-> 0, stop_after_no_new |-> 5]
    /\ pcC = "merging"
    /\ iter_count = 0
    /\ no_new_streak = 0
    /\ NormIdle
    /\ MatchIdle
    /\ OracleIdle
    /\ ExtIdle
    /\ SolIdle

NextMerge ==
    MergeCall

SpecMerge ==
    InitMerge /\ [][NextMerge]_vars

(* Specification of a collector run.                                       *)

InitCollector ==
    /\ existing_map = <<>>
    /\ merge_log = <<>>
    /\ merge_ret = <<>>
    /\ out_file \in PrevFiles
    /\ args \in ArgSets
    /\ pcC = "start"
    /\ iter_count = 0
    /\ no_new_streak = 0
    /\ NormIdle
    /\ MatchIdle
    /\ OracleIdle
    /\ ExtIdle
    /\ SolIdle

NextCollector ==
    \/ ColLoad
    \/ ColIterate
    \/ ColRestart

SpecCollector ==
    InitCollector /\ [][NextCollector]_vars

\* The loop body always ends (the extractor is run with a timeout, the
\* delay is finite), so an iteration that can be taken is taken.
SpecCollectorFair ==
    SpecCollector /\ WF_vars(ColIterate)

(* Specification of a solver run against the oracle.                       *)

InitSolver ==
    /\ exam \in SolExams
    /\ truth = PoolTruth(exam)
    /\ site \in Sites
    /\ posts = <<>>
    /\ resp = NoResp
    /\ pcS = "start"
    /\ kb_list \in KBs
    /\ sol_preguntas = <<>>
    /\ kb_entry = <<>>
    /\ chosen_positions = <<>>
    /\ score = <<>>
    /\ correct_by_idx = <<>>
    /\ aciertos = 0
    /\ wrong_blocks = <<>>
    /\ export_items = <<>>
    /\ NormIdle
    /\ MatchIdle
    /\ ExtIdle
    /\ ColIdle

NextSolver ==
    \/ SolGenerate
    \/ SolChoose
    \/ SolSubmit
    \/ SolReport
    \/ SolRequestFails

SpecSolver ==
    InitSolver /\ [][NextSolver]_vars
-----------------------------------------------------------------------------
(* C7: the normaliser is idempotent: normalising the normalised text gives *)
(* the same text, for every input.                                         *)
C7_Idempotent ==
    Len(txt_out) = 2 => txt_out[2] = txt_out[1]

(* C8: the matcher's cascade.  With T the normalised candidate and N the   *)
(* normalised options: the lowest index equal to T if there is one; else   *)
(* the lowest index with a non-empty containment either way; else the      *)
(* lowest index among the options of maximal similarity ratio.             *)
C8_Contained(o, t) ==
    o # <<>> /\ t # <<>> /\ (IsSubstring(o, t) \/ IsSubstring(t, o))

C8_Expected(cand, opts) ==
    LET T  == normalize_txt_strict(cand)
        N  == [k \in DOMAIN opts |-> normalize_txt_strict(opts[k])]
        eq == { k \in DOMAIN N : N[k] = T }
        in == { k \in DOMAIN N : C8_Contained(N[k], T) }
        mx == { k \in DOMAIN N : \A j \in DOMAIN N : ~RatioGT(Ratio(N[j], T), Ratio(N[k], T)) }
    IN  IF eq # {} THEN MinOf(eq) - 1
        ELSE IF in # {} THEN MinOf(in) - 1
        ELSE MinOf(mx) - 1

C8_Cascade ==
    (m_ret # <<>> /\ m_opts # <<>>) => m_ret[1] = C8_Expected(m_cand, m_opts)

\* Reached: the scenario, where option 1 equals the normalised candidate
\* while option 0 matches it by containment, answered with index 1.
C8_Witness ==
    /\ m_ret = <<1>>
    /\ m_opts = ScenarioOpts
    /\ normalize_txt_strict(m_opts[2]) = normalize_txt_strict(m_cand)
    /\ C8_Contained(normalize_txt_strict(m_opts[1]), normalize_txt_strict(m_cand))


-----------------------------------------------------------------------------
(* Claims about one extractor run.                                         *)

\* The baseline submission of the run, once posted.
Baseline ==
    posts[1]

\* The positions probed for question k: the posts after the baseline that
\* differ from it in the option of question k only, in the order sent.
RECURSIVE ProbedPositions(_, _)
ProbedPositions(k, n) ==
    IF n > Len(posts) THEN <<>>
    ELSE LET changed == { f \in posts[n] \ Baseline : f[1] = "opcion" }
             pos     == { j \in DOMAIN exam[k].opts :
                            <<"opcion", k - 1, exam[k].opts[j][1]>> \in changed }
         IN  (IF Cardinality(changed) = 1 /\ pos # {}
              THEN <<MinOf(pos) - 1>> ELSE <<>>)
             \o ProbedPositions(k, n + 1)

\* The probes the engine is to send for question k: positions 1, 2, ... up
\* to and including the first whose score exceeds the baseline score.
RECURSIVE ExpectedProbes(_, _)
ExpectedProbes(k, pos) ==
    IF pos >= Len(exam[k].opts) THEN <<>>
    ELSE LET probe == (Baseline \ { f \in Baseline : f[1] = "opcion" /\ f[2] = k - 1 })
                         \cup { <<"opcion", k - 1, exam[k].opts[pos + 1][1]>> }
             better == Cardinality({ j \in DOMAIN exam : AnsweredRight(exam, truth, probe, j) })
                       > Cardinality({ j \in DOMAIN exam : AnsweredRight(exam, truth, Baseline, j) })
         IN  <<pos>> \o (IF better THEN <<>> ELSE ExpectedProbes(k, pos + 1))

(* C1: at the end of an extractor run every question has a non-empty       *)
(* correct letter, and it is the letter of the oracle's correct option     *)
(* (letter A for a question whose baseline answer was right).              *)
C1_EveryQuestionResolved ==
    pcE = "done" =>
        \A k \in DOMAIN preguntas :
            /\ correcta_letras[k] # <<>>
            /\ correcta_letras[k] = to_letter(truth[k])

(* C2: for every question the baseline answered wrong, the text recorded   *)
(* for it is the text the oracle disclosed for that same question, and no  *)
(* probe is sent for it.                                                   *)
C2_DisclosureAttributed ==
    pcE \in {"resolved", "done"} =>
        \A k \in DOMAIN preguntas :
            ~AnsweredRight(exam, truth, Baseline, k) =>
                /\ correct_texts[k] = clean_visible_text(Disclosed(exam, truth, k))
                /\ ProbedPositions(k, 2) = <<>>

(* C3: for every question the baseline did not disclose, the positions     *)
(* 1, 2, ..., k-1 are probed in ascending order up to the first one that   *)
(* improves the score, and none after it.                                  *)
C3_ProbesAscending ==
    pcE = "done" =>
        \A k \in DOMAIN preguntas :
            AnsweredRight(exam, truth, Baseline, k) =>
                ProbedPositions(k, 2) = ExpectedProbes(k, 1)

(* C4: the end-to-end scenario: three questions of three options with the  *)
(* correct indices 2, 1, 0 end resolved as C, B, A.                        *)
C4_Scenario ==
    ( /\ pcE = "done"
      /\ Len(exam) = 3
      /\ \A k \in DOMAIN exam : Len(exam[k].opts) = 3
      /\ truth = <<2, 1, 0>> )
    => correcta_letras = << <<"C">>, <<"B">>, <<"A">> >>

-----------------------------------------------------------------------------
(* Claims about the knowledge base kept by the collector.                  *)

\* The record of the first pair of log with the key.
C5_FirstMerged(log, key) ==
    log[MinOf({ j \in DOMAIN log : log[j][1] = key })][2]

(* C5: merge is write-once: after any sequence of merge_into_map calls     *)
(* every key that was ever merged is stored once, and the entry stored     *)
(* under it is the first record that was merged with that key.             *)
C5_WriteOnce ==
    /\ \A j \in DOMAIN merge_log : HasKey(existing_map, merge_log[j][1])
    /\ \A n \in DOMAIN existing_map :
          /\ \E j \in DOMAIN merge_log : merge_log[j][1] = existing_map[n][1]
          /\ existing_map[n][2] = C5_FirstMerged(merge_log, existing_map[n][1])
          /\ \A m \in DOMAIN existing_map : existing_map[m][1] = existing_map[n][1] => m = n

\* A key was merged twice with different records, with and without an
\* identifier.
C5_Witness ==
    /\ iter_count = 2
    /\ \E i, j \in DOMAIN merge_log :
          /\ i < j
          /\ merge_log[i][1] = merge_log[j][1]
          /\ merge_log[i][2] # merge_log[j][2]
          /\ merge_log[i][2].id_pregunta # ""
    /\ \E i, j \in DOMAIN merge_log :
          /\ i < j
          /\ merge_log[i][1] = merge_log[j][1]
          /\ merge_log[i][2] # merge_log[j][2]
          /\ merge_log[i][2].id_pregunta = ""

(* C6: every entry of the knowledge base carries a non-empty correct       *)
(* answer: a record whose correct letter is empty is never inserted.       *)
C6_EntriesResolved ==
    \A n \in DOMAIN existing_map : existing_map[n][2].correcta # <<>>

\* The positions of batch whose key is neither in map nor earlier in batch.
C17_Fresh(map, batch) ==
    { n \in DOMAIN batch :
         /\ ~HasKey(map, batch[n][1])
         /\ \A m \in 1..(n - 1) : batch[m][1] # batch[n][1] }

\* The elements of batch at the positions of S from n on, in batch order.
RECURSIVE C17_InOrder(_, _, _)
C17_InOrder(batch, S, n) ==
    IF n > Len(batch) THEN <<>>
    ELSE (IF n \in S THEN <<batch[n]>> ELSE <<>>) \o C17_InOrder(batch, S, n + 1)

(* C17: one call of merge_into_map adds a record only under an absent key; *)
(* it returns the number of distinct keys of the batch that were absent,   *)
(* the size before the call plus that number, and the added records in     *)
(* batch order; of a key that occurs twice in the batch the first record   *)
(* is the one added.                                                       *)
C17_MergeContract ==
    [][ iter_count' = iter_count + 1 =>
          LET batch == SubSeq(merge_log', Len(merge_log) + 1, Len(merge_log'))
              added == C17_InOrder(batch, C17_Fresh(existing_map, batch), 1)
          IN  /\ existing_map' = existing_map \o added
              /\ merge_ret'[1] = Cardinality({ batch[n][1] : n \in DOMAIN batch }
                                               \ { existing_map[n][1] : n \in DOMAIN existing_map })
              /\ merge_ret'[2] = Len(existing_map) + merge_ret'[1]
              /\ merge_ret'[3] = [n \in DOMAIN added |-> added[n][2]]
      ]_vars

\* The second call merged a batch of two different records with one new
\* key into a non-empty map: one record was added, the first.
C17_Witness ==
    /\ iter_count = 2
    /\ Len(merge_log) >= 3
    /\ merge_log[Len(merge_log) - 1][1] = merge_log[Len(merge_log)][1]
    /\ merge_log[Len(merge_log) - 1][2] # merge_log[Len(merge_log)][2]
    /\ merge_ret[1] = 1
    /\ merge_ret[2] = 2
    /\ merge_ret[3] = <<merge_log[Len(merge_log) - 1][2]>>
    /\ Len(merge_log) = 3

(* C18: the collector loop ends whenever max_iter > 0, after at most       *)
(* max_iter runs of the extractor, or stop_after_no_new = N > 0: it stops  *)
(* as soon as N iterations in a row failed or added nothing, the streak    *)
(* being 0 again after an iteration that added a question; with target,    *)
(* max_iter and stop_after_no_new all 0 it never stops.                    *)
C18_Terminates ==
    /\ ((pcC = "loop" /\ (args.max_iter > 0 \/ args.stop_after_no_new > 0)) ~> pcC = "stopped")
    /\ [](args.max_iter > 0 =>
             /\ iter_count <= args.max_iter + 1
             /\ pcC = "loop" => iter_count <= args.max_iter)
    /\ []((args.stop_after_no_new > 0 /\ pcC = "loop") =>
             no_new_streak < args.stop_after_no_new)
    /\ [][ (pcC = "loop" /\ pcC' = "loop") =>
             no_new_streak' = IF Len(existing_map') > Len(existing_map)
                              THEN 0 ELSE no_new_streak + 1 ]_vars
    /\ []((args.target = 0 /\ args.max_iter = 0 /\ args.stop_after_no_new = 0) =>
             pcC # "stopped")

\* The loop stopped on a streak of five iterations without a new question,
\* with no limit on the iterations and the target not reached.
C18_Witness ==
    /\ pcC = "stopped"
    /\ args.max_iter = 0
    /\ args.stop_after_no_new = 5
    /\ no_new_streak = 5
    /\ iter_count = 5
    /\ args.target > Len(existing_map)

-----------------------------------------------------------------------------
(* Claims about one solver run.                                            *)

\* The positions of the knowledge-base entries that carry the identifier of
\* question p; an empty identifier is no identifier.
C9_ById(p) ==
    { n \in DOMAIN kb_list : p.id_pregunta # "" /\ kb_list[n].id_pregunta = p.id_pregunta }

\* The positions of the entries whose normalised prompt equals that of p.
C9_ByText(p) ==
    { n \in DOMAIN kb_list : norm_text(kb_list[n].pregunta) = norm_text(p.pregunta) }

(* C9: the lookup uses an entry that has the question's identifier when    *)
(* one exists, whatever entry matches by text; otherwise the first entry,  *)
(* in insertion order, whose normalised prompt equals the question's       *)
(* normalised prompt; otherwise no entry.                                  *)
C9_LookupOrder ==
    pcS \in {"chosen", "graded", "done"} =>
        \A k \in DOMAIN sol_preguntas :
            IF C9_ById(sol_preguntas[k]) # {}
            THEN kb_entry[k] # <<>> /\ kb_entry[k][1] \in C9_ById(sol_preguntas[k])
            ELSE IF C9_ByText(sol_preguntas[k]) # {}
            THEN kb_entry[k] = <<MinOf(C9_ByText(sol_preguntas[k]))>>
            ELSE kb_entry[k] = <<>>

\* Reached: a question found by its identifier in the second entry while
\* the first entry, with another identifier, has its prompt.
C9_Witness ==
    /\ pcS = "chosen"
    /\ \E k \in DOMAIN sol_preguntas :
          /\ C9_ById(sol_preguntas[k]) # {}
          /\ C9_ByText(sol_preguntas[k]) # {}
          /\ MinOf(C9_ByText(sol_preguntas[k])) \notin C9_ById(sol_preguntas[k])
          /\ kb_entry[k] = <<2>>

\* Reached: a question without identifier found by text, in the first of
\* two entries that have its prompt.
C9_TextFallbackReached ==
    /\ pcS = "chosen"
    /\ \E k \in DOMAIN sol_preguntas :
          /\ sol_preguntas[k].id_pregunta = ""
          /\ Cardinality(C9_ByText(sol_preguntas[k])) = 2
          /\ kb_entry[k] = <<1>>

(* C10: a solver run posts exactly one submission, and it reports a        *)
(* question as failed exactly when the response to that submission         *)
(* disclosed a correction for that question.                               *)
C10_OneSubmissionFailedIffDisclosed ==
    pcS = "done" =>
        /\ Len(posts) = 1
        /\ \A k \in DOMAIN sol_preguntas :
              (\E j \in DOMAIN wrong_blocks : wrong_blocks[j] = sol_preguntas[k].idx)
              <=> ~AnsweredRight(exam, truth, posts[1], k)

\* The correct option text of a knowledge-base entry as <<text>>: the option
\* of the entry under its letter, else its correct_text; <<>> when the
\* entry has neither.
C20_CorrectText(entry) ==
    LET L   == kb_get_answer_letter(entry)
        pos == CHOOSE k \in DOMAIN LETTERS : LETTERS[k] = L[1]
    IN  IF L # <<>> /\ pos <= Len(entry.opciones) THEN <<entry.opciones[pos]>>
        ELSE IF entry.correct_text # <<>> THEN <<entry.correct_text>>
        ELSE <<>>

(* C20: when the solver picks an option from a knowledge-base entry, the   *)
(* text of the option it marks in the exam equals the correct option text  *)
(* of the entry, also when the exam lists the options in another order     *)
(* than the entry.                                                         *)
C20_PickedTextIsCorrectText ==
    pcS \in {"chosen", "graded", "done"} =>
        \A k \in DOMAIN sol_preguntas :
            ( /\ kb_entry[k] # <<>>
              /\ ChooseFromEntry(sol_preguntas[k], kb_list[kb_entry[k][1]]) # <<>>
              /\ C20_CorrectText(kb_list[kb_entry[k][1]]) # <<>> )
            => norm_text(sol_preguntas[k].opciones_texto[chosen_positions[k] + 1])
                 = norm_text(C20_CorrectText(kb_list[kb_entry[k][1]])[1])

(* C21: for every knowledge base and every question of the parsed exam,    *)
(* the choice taken from the knowledge base is none or an index of the     *)
(* question's options, no choice means index 0, the index used to build    *)
(* the payload lies inside the question's option values, and the payload   *)
(* posted carries one option value for the question, one of its own.       *)
C21_PayloadWithinOptions ==
    pcS \in {"chosen", "graded", "done"} =>
        \A k \in DOMAIN sol_preguntas :
            LET p   == sol_preguntas[k]
                n   == Len(p.opciones_val)
                ix  == build_kb_indices(kb_list)
                pos == choose_from_kb(p, kb_list, ix[1], ix[2])
            IN  /\ pos = <<>> \/ pos[1] \in 0..(n - 1)
                /\ chosen_positions[k] = IF pos = <<>> THEN 0 ELSE pos[1]
                /\ ClampPos(chosen_positions[k], n) \in 0..(n - 1)
                /\ posts # <<>> =>
                      \E j \in 1..n :
                          { f \in posts[1] : f[1] = "opcion" /\ f[2] = p.idx }
                              = { <<"opcion", p.idx, p.opciones_val[j]>> }

-----------------------------------------------------------------------------
(* Claims about failures of a run.                                         *)

(* C11: when the grading response carries no total score the solver run    *)
(* fails: it does not complete, and it produces no report and no export.   *)
C11_UnparseableScoreFatal ==
    (pcS \in {"graded", "done"} /\ resp.score = <<>>) =>
        /\ pcS # "done"
        /\ wrong_blocks = <<>>
        /\ export_items = <<>>

(* C12: when the generated test has no questions the extractor run ends    *)
(* with a failure, not with a normal exit, and it neither posts a grading  *)
(* submission nor writes an export.                                        *)
C12_NoQuestionsFatal ==
    (pcE # "start" /\ preguntas = <<>>) =>
        /\ pcE = "crashed"
        /\ posts = <<>>
        /\ out_json = <<>>

-----------------------------------------------------------------------------
(* Claims about the baseline payload and the exported records.             *)

(* C13: the baseline submission holds, for every question of the test, its *)
(* identifier and the value of its first option, and no other option of    *)
(* any question.                                                           *)
C13_BaselinePayload ==
    posts # <<>> =>
        posts[1] = { <<"id", k - 1, exam[k].id>> : k \in DOMAIN exam }
                   \cup { <<"opcion", k - 1, exam[k].opts[1][1]>> : k \in DOMAIN exam }

\* Reached: the baseline of a test of three questions has been posted.
C13_Witness ==
    /\ pcE = "graded"
    /\ Len(exam) = 3
    /\ Len(posts) = 1
    /\ <<"opcion", 2, exam[3].opts[1][1]>> \in posts[1]

\* The 0-based position a letter designates.
C14_IndexOf(L) ==
    (CHOOSE k \in DOMAIN LETTERS : LETTERS[k] = L[1]) - 1

(* C14: in every exported record a letter that is set designates a         *)
(* position of the record's option list, a text that is set is the text of *)
(* the option the letter designates, and neither is set without the other. *)
C14_LetterTextAgree ==
    \A k \in DOMAIN out_json :
        /\ (out_json[k].correcta = <<>>) <=> (out_json[k].correcta_texto = <<>>)
        /\ out_json[k].correcta # <<>> =>
              /\ C14_IndexOf(out_json[k].correcta) < Len(out_json[k].opciones)
              /\ out_json[k].correcta_texto
                    = out_json[k].opciones[C14_IndexOf(out_json[k].correcta) + 1]

\* Reached: an export where the disclosed text carried a citation that the
\* option text does not have, and the letter B was set.
C14_Witness ==
    /\ pcE = "done"
    /\ \E k \in DOMAIN out_json :
          /\ out_json[k].correcta = <<"B">>
          /\ correct_texts[k] # out_json[k].correcta_texto
          /\ correct_texts[k] = clean_visible_text(Disclosed(exam, truth, k))

-----------------------------------------------------------------------------
(* Claims about the stages of the matcher.                                 *)

\* The record exported for question k had the disclosed text been the text
\* of the option that was picked, a match of the exact stage.
C15_ConfidentRecord(k) ==
    LET p    == preguntas[k]
        pos  == best_option_match(correct_texts[k], p.opciones_texto)
        pair == MapOne(p, p.opciones_texto[pos + 1])
    IN  write_json_with_correct(<<p>>, <<pair[1]>>, <<pair[2]>>)[1]

(* C15: when the matcher decides by similarity with a best ratio below     *)
(* 0.80 the index is still returned, and the exported record of that       *)
(* question can be told from the record of a confident match.              *)
C15_LowConfidenceSurfaced ==
    pcE = "done" =>
        \A k \in DOMAIN preguntas :
            ( /\ correct_texts[k] # <<>>
              /\ preguntas[k].opciones_texto # <<>>
              /\ match_stage(correct_texts[k], preguntas[k].opciones_texto) = "fallback" )
            => /\ correcta_letras[k] # <<>>
               /\ out_json[k] # C15_ConfidentRecord(k)

(* C19: the containment stage decides only between non-empty strings: when *)
(* it decides, neither the normalised candidate nor the normalised option  *)
(* it picks is empty.                                                      *)
C19_ContainmentNonEmpty ==
    (m_ret # <<>> /\ match_stage(m_cand, m_opts) = "inclusion") =>
        /\ normalize_txt_strict(m_cand) # <<>>
        /\ normalize_txt_strict(m_opts[m_ret[1] + 1]) # <<>>

(* C16: the output file is append-only over iterations and invocations of  *)
(* the collector: every entry the file holds is still in the file, with    *)
(* the same content, after every step, also after an invocation that read  *)
(* the file not at all or in part and after an iteration whose extraction  *)
(* failed.                                                                 *)
C16_Entries(f) ==
    { f.data[n] : n \in { k \in DOMAIN f.data : IsDict(f.data[k]) } }

=============================================================================
